---- MODULE Spec2Model ----
\* A model of the bwv-zeug build engine: the incremental task runner of
\* src/invoke/tasks_utils.py (smart_task and its cache) and the resolver of
\* src/invoke/tasks_mermaid_generator.py (dependencies, ordering, final tasks,
\* generated task descriptors).
EXTENDS Integers, Sequences, FiniteSets, TLC

\* ---------------------------------------------------------------- bounds
\* A file's content is a number 1..MaxContent; 0 stands for "no such file".
MaxContent == 2
\* The longest command list passed to smart_task.
MaxCmds == 2
\* The most build processes running at the same time on one cache file.
MaxProcs == 2

\* ---------------------------------------------------------------- universe
\* The generated task functions of one tasks_generated.py, in the order in
\* which `invoke all` calls them, and the paths they read and write.
TaskOrder == <<"t1", "t2">>
TaskNames == {TaskOrder[i] : i \in 1..Len(TaskOrder)}
Paths == {"a", "b"}

VARIABLES
    pipeline,    \* task name -> [sources, targets] as written in the generated smart_task call
    disk,        \* path -> content (0: the file does not exist)
    cache_file,  \* .build_cache.json: [exists, data: task name -> (path -> sha256)]
    pc,          \* where the build process is
    idx,         \* position in TaskOrder of the task being (or about to be) invoked
    inv,         \* the current smart_task invocation (its arguments and progress)
    outcome,     \* how the current / latest run ended
    run,         \* what the current run did so far
    prev,        \* how the run before ended, as far as the current run can rely on it
    edited,      \* a source file was edited since the latest run ended
    nodes,       \* listener.nodes: the declared nodes, in declaration order
    edges,       \* listener.edges: the (from, to) pairs, in declaration order
    gpc,         \* where the generator is
    artifact,    \* the generated tasks file, as descriptors
    snapshot,    \* the files as the first build left them, once the cache file is deleted
    cli,         \* one run of the generator's command line: its inputs, position and exit
    last,        \* the invocation at which the run before failed or was killed
    procs        \* the build processes that share one cache file, each inside sources_changed

evars == <<pipeline, disk, cache_file, pc, idx, inv, outcome, run, prev, edited>>
gvars == <<nodes, edges, gpc, artifact>>
vars == <<pipeline, disk, cache_file, pc, idx, inv, outcome, run, prev, edited,
          nodes, edges, gpc, artifact, snapshot, cli, last, procs>>

\* ---------------------------------------------------------------- cache
EmptyMap == [p \in {} |-> 0]

\* The assignment made on a fresh dict instead of the loaded one.
Put_alone(f, k, v) == [q \in {k} |-> v]

Put(f, k, v) == [q \in (DOMAIN f) \cup {k} |-> IF q = k THEN v ELSE f[q]]

\* hash_file: SHA-256 of the file's bytes, taken as collision free.
hash_file(content) == <<"sha256", content>>

\* load_cache: the JSON object of the file, or {} when there is no file.
load_cache(cf) == IF cf.exists THEN cf.data ELSE EmptyMap

\* save_cache: (re)writes the whole file.
save_cache(cache) == [exists |-> TRUE, data |-> cache]

\* {str(p): hash_file(p) for p in source_paths if p.exists()}
current_hashes(source_paths, d) ==
    [p \in {q \in source_paths : d[q] # 0} |-> hash_file(d[p])]

\* cache.get(task_name, {})
cache_get(cache, task_name) ==
    IF task_name \in DOMAIN cache THEN cache[task_name] ELSE EmptyMap

\* sources_changed without its save_cache call.
sources_changed_unsaved(task_name, source_paths, cf, d) ==
    LET current == current_hashes(source_paths, d)
        cached  == cache_get(load_cache(cf), task_name)
    IN  [changed |-> current # cached, cache_file |-> cf]

\* sources_changed: the verdict and the cache file it leaves behind.
sources_changed(task_name, source_paths, cf, d) ==
    LET cache   == load_cache(cf)
        current == current_hashes(source_paths, d)
        cached  == cache_get(cache, task_name)
        changed == current # cached
    IN  [changed    |-> changed,
         cache_file |-> IF changed THEN save_cache(Put(cache, task_name, current)) ELSE cf]

\* The condition of line 304 with its operands swapped:
\* `sources_changed(...) or force`.
rebuild_decision_eager(force, task_name, source_paths, cf, d) ==
    LET r == sources_changed(task_name, source_paths, cf, d)
    IN  [rebuild |-> force \/ r.changed, cache_file |-> r.cache_file]

\* `force or sources_changed(...)`: `or` short-circuits, so a forced call never
\* evaluates sources_changed.
rebuild_decision(force, task_name, source_paths, cf, d) ==
    IF force
    THEN [rebuild |-> TRUE, cache_file |-> cf]
    ELSE LET r == sources_changed(task_name, source_paths, cf, d)
         IN  [rebuild |-> r.changed, cache_file |-> r.cache_file]

\* ---------------------------------------------------------------- files
\* remove_outputs leaving every file in place.
remove_outputs_none(filenames, d) == d

\* remove_outputs: unlink every named file that exists.
remove_outputs(filenames, d) == [p \in Paths |-> IF p \in filenames THEN 0 ELSE d[p]]

RECURSIVE SumContents(_, _)
SumContents(S, d) ==
    IF S = {} THEN 0
    ELSE LET p == CHOOSE q \in S : TRUE IN d[p] + SumContents(S \ {p}, d)

\* What a (deterministic) command writes into a target: a function of the
\* contents of the task's sources at the time it runs.
Produced(source_paths, d) == 1 + (SumContents(source_paths, d) % MaxContent)

\* The external command writes the targets in `written` (possibly not all).
write_targets(written, source_paths, d) ==
    LET c == Produced(source_paths, d)
    IN  [p \in Paths |-> IF p \in written THEN c ELSE d[p]]

\* missing_targets = [t for t in targets if not Path(t).exists()]
missing_targets(targets, d) == {p \in targets : d[p] = 0}

\* No tasks file is being generated.
NoArtifact ==
    [tasks |-> <<>>, all_task |-> [present |-> FALSE], final_tasks |-> {},
     status_task |-> <<>>, clean_task |-> <<>>, clean_all_task |-> <<>>,
     info_task |-> <<>>, meta |-> <<>>, rounds |-> <<>>]

\* The cache file was not deleted to build again.
NoSnapshot == EmptyMap

\* No run of the generator's command line.
NoCli == [pos |-> "off", given |-> {}, input_exists |-> FALSE, parses |-> FALSE,
          writable |-> FALSE, output_exists |-> FALSE, output_written |-> FALSE,
          exit_code |-> 0]

\* ---------------------------------------------------------------- run state
\* inv.hashes are the current_hashes that sources_changed computed for the
\* decision (none when force made the call of sources_changed unnecessary).
NoInv == [task |-> "", force |-> FALSE, commands |-> 0, python_func |-> FALSE,
          rebuild |-> FALSE, started |-> 0, validated |-> FALSE, printed |-> {},
          hashes |-> EmptyMap]

\* No run before, or one that was neither killed nor stopped by a failing command.
NoLast == [kind |-> "none", task |-> "", forced |-> FALSE, hashes |-> EmptyMap]

\* No concurrent build processes.
NoProcs == <<>>

\* How a run ends. `kind` is the wording of the gentle_exit message ("command":
\* "Command failed in task ..." / "Python script failed in task ..." / "Task ...
\* failed" / "BWV script not found"; "missing": "... some output files were not
\* created"; "internal": "Internal error: ..."), with the task and the command
\* that failed and the target list the message names; exit_code is the
\* process's exit status. What the output shows of the task and the command is
\* in inv.printed.
Outcome(kind, task, command, missing, exit_code) ==
    [kind |-> kind, task |-> task, command |-> command, missing |-> missing,
     exit_code |-> exit_code]

NoOutcome == Outcome("none", "", 0, {}, 0)

RunOk == Outcome("ok", "", 0, {}, 0)

NewRunState == [forced |-> FALSE, rebuilt |-> {}]

\* The pipelines: the first task reads and writes any of the paths; the second
\* reads "b" or nothing and writes "a" or nothing, so that it can consume what the
\* first one produces or overwrite what the first one reads.
Pipelines ==
    {[t \in TaskNames |-> IF t = TaskOrder[1] THEN d1 ELSE d2] :
        d1 \in [sources : SUBSET Paths, targets : SUBSET Paths],
        d2 \in [sources : {{}, {"b"}}, targets : {{}, {"a"}}]}

AllSources == UNION {pipeline[t].sources : t \in TaskNames}

Init ==
    /\ pipeline \in Pipelines
    /\ disk \in [Paths -> 0..MaxContent]
    /\ cache_file = [exists |-> FALSE, data |-> EmptyMap]
    /\ pc = "idle"
    /\ idx = 1
    /\ inv = NoInv
    /\ outcome = NoOutcome
    /\ run = NewRunState
    /\ prev = "none"
    /\ edited = FALSE
    /\ snapshot = NoSnapshot
    /\ cli = NoCli
    /\ last = NoLast
    /\ procs = NoProcs
    /\ nodes = <<>>
    /\ edges = <<>>
    /\ gpc = "off"
    /\ artifact = NoArtifact

\* gentle_exit with one wording for every failure.
gentle_exit_one_kind(kind, task, command, missing) ==
    [pc |-> "idle", outcome |-> Outcome("command", task, command, missing, 1)]

\* gentle_exit: print the message and sys.exit(1): the build process is gone.
gentle_exit(kind, task, command, missing) ==
    [pc |-> "idle", outcome |-> Outcome(kind, task, command, missing, 1)]

\* ---------------------------------------------------------------- actions
\* A new `invoke all` process starts.
StartRun ==
    /\ pc = "idle"
    /\ pc' = "start"
    /\ idx' = 1
    /\ inv' = NoInv
    /\ outcome' = NoOutcome
    /\ prev' = IF outcome.kind # "ok" \/ edited THEN "none"
               ELSE IF run.forced THEN "ok_forced" ELSE "ok"
    /\ edited' = FALSE
    /\ run' = NewRunState
    /\ UNCHANGED <<pipeline, disk, cache_file>>
    /\ UNCHANGED <<gvars, snapshot, cli, last, procs>>

\* Between two runs the user edits, creates or deletes a file.
EditFile(p, c) ==
    /\ pc = "idle"
    /\ disk[p] # c
    /\ disk' = [disk EXCEPT ![p] = c]
    /\ edited' = (edited \/ p \in AllSources)
    /\ UNCHANGED <<pipeline, cache_file, pc, idx, inv, outcome, run, prev>>
    /\ UNCHANGED <<gvars, snapshot, cli, last, procs>>

\* smart_task, from its entry to the rebuild decision (lines 294-304).
SmartTask(force, commands, python_func) ==
    /\ pc = "start"
    /\ LET name == TaskOrder[idx]
           call == [task |-> name, force |-> force, commands |-> commands,
                    python_func |-> python_func, rebuild |-> FALSE, started |-> 0,
                    validated |-> FALSE, printed |-> {"task"},
                    hashes |-> IF force THEN EmptyMap
                               ELSE current_hashes(pipeline[name].sources, disk)]
       IN  IF (commands > 0 /\ python_func) \/ (commands = 0 /\ ~python_func)
           THEN LET x == gentle_exit("internal", name, 0, {})
                IN  /\ pc' = x.pc
                    /\ outcome' = x.outcome
                    /\ inv' = NoInv
                    /\ UNCHANGED <<cache_file, run>>
           ELSE LET r == rebuild_decision(force, name, pipeline[name].sources, cache_file, disk)
                IN  /\ cache_file' = r.cache_file
                    /\ inv' = [call EXCEPT !.rebuild = r.rebuild]
                    /\ pc' = IF r.rebuild THEN "remove" ELSE "up_to_date"
                    /\ run' = [run EXCEPT !.forced = @ \/ force,
                                          !.rebuilt = IF r.rebuild THEN @ \cup {name} ELSE @]
                    /\ UNCHANGED outcome
    /\ UNCHANGED <<pipeline, disk, idx, prev, edited>>
    /\ UNCHANGED <<gvars, snapshot, cli, last, procs>>

\* remove_outputs(*targets) and the "Rebuilding" line (lines 305-306).
RemoveOutputs ==
    /\ pc = "remove"
    /\ disk' = remove_outputs(pipeline[inv.task].targets, disk)
    /\ pc' = IF inv.commands > 0 THEN "commands" ELSE "python_func"
    /\ UNCHANGED <<pipeline, cache_file, idx, inv, outcome, run, prev, edited>>
    /\ UNCHANGED <<gvars, snapshot, cli, last, procs>>

\* The command loop with the exception swallowed (no gentle_exit in the handler).
after_command_swallowed(ok, task, k, n) ==
    [pc |-> IF k < n THEN "commands" ELSE "validate",
     outcome |-> IF ok THEN NoOutcome ELSE Outcome("command", task, k, {}, 1)]

\* Where the command loop goes after c.run(cmd) returned or raised.
after_command(ok, task, k, n) ==
    IF ~ok THEN gentle_exit("command", task, k, {})
    ELSE [pc |-> IF k < n THEN "commands" ELSE "validate", outcome |-> NoOutcome]

\* One iteration of `for cmd in commands` (lines 310-320): the command runs,
\* writes some of the targets, and exits with status zero or not.
RunCommand(written, ok) ==
    /\ pc = "commands"
    /\ written \subseteq pipeline[inv.task].targets
    /\ LET k == inv.started + 1
           x == after_command(ok, inv.task, k, inv.commands)
       IN  /\ inv' = [inv EXCEPT !.started = k, !.printed = @ \cup {"command"}]
           /\ disk' = write_targets(written, pipeline[inv.task].sources, disk)
           /\ pc' = x.pc
           /\ outcome' = x.outcome
    /\ UNCHANGED <<pipeline, cache_file, idx, run, prev, edited>>
    /\ UNCHANGED <<gvars, snapshot, cli, last, procs>>

\* How python_func(), a call of run_bwv_script, ends: the script ran and exited
\* with status zero ("ok") or not ("failed", a CalledProcessError); the script
\* file does not exist ("not_found", gentle_exit inside run_bwv_script); or
\* another exception was raised before the script was started ("raised", such
\* as the RuntimeError of detect_project_name).
PythonResults == {"ok", "failed", "not_found", "raised"}

\* What run_bwv_script and the messages about it print of the call: the
\* "Running: python3 ..." line with the script and its arguments, or only the
\* path of the script that was not found, or nothing.
printed_by_python_func(result) ==
    CASE result \in {"ok", "failed"} -> {"command"}
      [] result = "not_found" -> {"script"}
      [] OTHER -> {}

\* Where smart_task goes after python_func() returned or raised.
after_python_func(result, task) ==
    IF result # "ok" THEN gentle_exit("command", task, 1, {})
    ELSE [pc |-> "validate", outcome |-> NoOutcome]

\* python_func() (lines 322-337).
RunPythonFunc(written, result) ==
    /\ pc = "python_func"
    /\ written \subseteq pipeline[inv.task].targets
    /\ LET x == after_python_func(result, inv.task)
       IN  /\ inv' = [inv EXCEPT !.started = 1, !.printed = @ \cup printed_by_python_func(result)]
           /\ disk' = write_targets(written, pipeline[inv.task].sources, disk)
           /\ pc' = x.pc
           /\ outcome' = x.outcome
    /\ UNCHANGED <<pipeline, cache_file, idx, run, prev, edited>>
    /\ UNCHANGED <<gvars, snapshot, cli, last, procs>>

\* The task function returned: invoke calls the next one, or the run is over.
task_returns(i) ==
    IF i < Len(TaskOrder)
    THEN [pc |-> "start", idx |-> i + 1, outcome |-> NoOutcome]
    ELSE [pc |-> "idle", idx |-> i, outcome |-> RunOk]

\* The target check reporting the whole target list instead of the missing ones.
validate_targets_all(task, targets, d, i) ==
    IF missing_targets(targets, d) # {}
    THEN [pc |-> "idle", idx |-> i, returned |-> FALSE,
          outcome |-> Outcome("missing", task, 0, targets, 1)]
    ELSE [pc |-> IF i < Len(TaskOrder) THEN "start" ELSE "idle",
          idx |-> IF i < Len(TaskOrder) THEN i + 1 ELSE i, returned |-> TRUE,
          outcome |-> IF i < Len(TaskOrder) THEN NoOutcome ELSE RunOk]

\* The target check after the commands (lines 339-348) and "Task completed".
validate_targets(task, targets, d, i) ==
    LET missing == missing_targets(targets, d)
    IN  IF missing # {}
        THEN LET x == gentle_exit("missing", task, 0, missing)
             IN  [pc |-> x.pc, idx |-> i, outcome |-> x.outcome, returned |-> FALSE]
        ELSE LET x == task_returns(i)
             IN  [pc |-> x.pc, idx |-> x.idx, outcome |-> x.outcome, returned |-> TRUE]

Validate ==
    /\ pc = "validate"
    /\ LET x == validate_targets(inv.task, pipeline[inv.task].targets, disk, idx)
       IN  /\ pc' = x.pc
           /\ idx' = x.idx
           /\ outcome' = x.outcome
           /\ inv' = IF x.returned THEN NoInv ELSE [inv EXCEPT !.validated = TRUE]
    /\ UNCHANGED <<pipeline, disk, cache_file, run, prev, edited>>
    /\ UNCHANGED <<gvars, snapshot, cli, last, procs>>

\* The else branch (lines 349-355): "Up to date" and "Task completed".
UpToDate ==
    /\ pc = "up_to_date"
    /\ LET x == task_returns(idx)
       IN  /\ pc' = x.pc
           /\ idx' = x.idx
           /\ outcome' = x.outcome
    /\ inv' = NoInv
    /\ UNCHANGED <<pipeline, disk, cache_file, run, prev, edited>>
    /\ UNCHANGED <<gvars, snapshot, cli, last, procs>>

Next ==
    \/ StartRun
    \/ \E p \in Paths, c \in 0..MaxContent : EditFile(p, c)
    \/ \E force \in BOOLEAN, commands \in 0..MaxCmds, python_func \in BOOLEAN :
          SmartTask(force, commands, python_func)
    \/ RemoveOutputs
    \/ \E written \in SUBSET Paths, ok \in BOOLEAN : RunCommand(written, ok)
    \/ \E written \in SUBSET Paths, result \in PythonResults : RunPythonFunc(written, result)
    \/ Validate
    \/ UpToDate

Spec == Init /\ [][Next]_vars

TypeOK ==
    /\ pc \in {"idle", "start", "remove", "commands", "python_func", "validate", "up_to_date"}
    /\ idx \in 1..Len(TaskOrder)
    /\ disk \in [Paths -> 0..MaxContent]
    /\ prev \in {"none", "ok", "ok_forced"}

\* ---------------------------------------------------------------- killed builds
\* The build process is killed while c.run(cmd) or python_func() is running
\* (lines 317-324): the command has written some of the targets, nothing is
\* printed or checked any more, and the exit status is that of the signal.
Kill(written) ==
    /\ pc \in {"commands", "python_func"}
    /\ written \subseteq pipeline[inv.task].targets
    /\ inv' = [inv EXCEPT !.started = @ + 1]
    /\ disk' = write_targets(written, pipeline[inv.task].sources, disk)
    /\ pc' = "idle"
    /\ outcome' = Outcome("killed", inv.task, inv.started + 1, {}, 137)
    /\ UNCHANGED <<pipeline, cache_file, idx, run, prev, edited>>
    /\ UNCHANGED <<gvars, snapshot, cli, last, procs>>

\* `invoke all` is started for the first time, or again after a run that
\* failed or was killed, by a user who remembers at which invocation that run
\* stopped.
Rerun ==
    /\ pc = "idle"
    /\ last = NoLast
    /\ outcome.kind \in {"none", "command", "killed"}
    /\ pc' = "start"
    /\ idx' = 1
    /\ inv' = NoInv
    /\ outcome' = NoOutcome
    /\ prev' = IF outcome.kind # "ok" \/ edited THEN "none"
               ELSE IF run.forced THEN "ok_forced" ELSE "ok"
    /\ edited' = FALSE
    /\ run' = NewRunState
    /\ last' = IF outcome.kind \in {"command", "killed"}
               THEN [kind |-> outcome.kind, task |-> inv.task, forced |-> inv.force,
                     hashes |-> inv.hashes]
               ELSE NoLast
    /\ UNCHANGED <<pipeline, disk, cache_file>>
    /\ UNCHANGED <<gvars, snapshot, cli, procs>>

RerunNext ==
    \/ Rerun
    \/ (outcome.kind \in {"command", "killed"} /\ last = NoLast /\ ~edited)
          /\ \E p \in Paths, c \in 0..MaxContent : EditFile(p, c)
    \/ \E force \in BOOLEAN, commands \in 0..MaxCmds, python_func \in BOOLEAN :
          SmartTask(force, commands, python_func)
    \/ RemoveOutputs
    \/ \E written \in SUBSET Paths, ok \in BOOLEAN : RunCommand(written, ok)
    \/ \E written \in SUBSET Paths, result \in PythonResults : RunPythonFunc(written, result)
    \/ \E written \in SUBSET Paths : Kill(written)
    \/ Validate
    \/ UpToDate

RerunSpec == Init /\ [][RerunNext]_vars

\* ---------------------------------------------------------------- rebuild
\* A first build without a cache file, then the cache file is deleted and the
\* build is run again: `invoke all`, `rm .build_cache.json`, `invoke all`. The
\* pre-tasks of `all` are called with their default force=False.

\* The user deletes .build_cache.json after a completed build; load_cache then
\* finds no file.
DeleteCache ==
    /\ pc = "idle"
    /\ outcome.kind = "ok"
    /\ snapshot = NoSnapshot
    /\ cache_file' = [exists |-> FALSE, data |-> EmptyMap]
    /\ snapshot' = disk
    /\ UNCHANGED <<pipeline, disk, pc, idx, inv, outcome, run, prev, edited>>
    /\ UNCHANGED <<gvars, cli, last, procs>>

RebuildNext ==
    \/ (prev = "none" /\ (outcome = NoOutcome \/ snapshot # NoSnapshot)) /\ StartRun
    \/ DeleteCache
    \/ \E commands \in 0..MaxCmds, python_func \in BOOLEAN : SmartTask(FALSE, commands, python_func)
    \/ RemoveOutputs
    \/ \E written \in SUBSET Paths, ok \in BOOLEAN : RunCommand(written, ok)
    \/ \E written \in SUBSET Paths, result \in PythonResults : RunPythonFunc(written, result)
    \/ Validate
    \/ UpToDate

RebuildSpec == Init /\ [][RebuildNext]_vars

\* ================================================================ generator
\* The resolver and generator of tasks_mermaid_generator.py, applied to the
\* nodes and edges the listener collected.

\* The longest edge list drawn.
MaxEdges == 4

NodeIds == {"T1", "T2", "T3", "R1", "R2", "O1", "E1", "I1"}

\* node_id[0] / str.startswith: the first character of an id.
FirstChar(id) ==
    CASE id \in {"T1", "T2", "T3"} -> "T"
      [] id \in {"R1", "R2"} -> "R"
      [] id \in {"O1", "O2"} -> "O"
      [] id \in {"E1"} -> "E"
      [] id \in {"I1", "I2"} -> "I"
      [] OTHER -> "U"

startswith(id, c) == FirstChar(id) = c

\* The main label of each node: a task name, a file name or a command line.
DockerCommand == "docker run -v PWD:/work lilypond INCLUDES BWV000.ly"
ScriptCommand == "bwv_script:extract_ties.py -i BWV000.svg -o BWV000_ties.csv"
OtherCommand == "make BWV000.pdf"
LilypondCommand == "lilypond a.ly"
ScriptNoOutputCommand == "bwv_script:optimize.py BWV000.svg"

Label(id) ==
    CASE id = "T1" -> "t1"
      [] id = "T2" -> "t2"
      [] id = "T3" -> "t3"
      [] id = "R1" -> DockerCommand
      [] id = "O1" -> "BWV000.svg"
      [] id = "E1" -> "exports/BWV000.pdf"
      [] id = "I1" -> "BWV000.ly"

\* enterNodeDeclaration: the dict appended to listener.nodes.
Node(id, content) == [id |-> id, type |-> FirstChar(id), content |-> content, description |-> ""]

None == [id |-> "None", type |-> "", content |-> "", description |-> ""]
NoId == "None"

ToSet(s) == {s[i] : i \in 1..Len(s)}

Without(s, id) == SelectSeq(s, LAMBDA n : n.id # id)

DeclaredAll(r2) ==
    <<Node("T1", Label("T1")), Node("T2", Label("T2")), Node("T3", Label("T3")),
      Node("R1", Label("R1")), Node("R2", r2), Node("O1", Label("O1")),
      Node("E1", Label("E1")), Node("I1", Label("I1"))>>

\* The node lists drawn: every node declared, or the third task or the export
\* left undeclared (its id then occurs in edges only); the second runnable is a
\* script call or a command line the generator does not recognise.
NodeLists ==
    {DeclaredAll(ScriptCommand), DeclaredAll(OtherCommand),
     Without(DeclaredAll(ScriptCommand), "T3"), Without(DeclaredAll(ScriptCommand), "E1")}

\* The edges drawn from.
CandidateEdges ==
    <<<<"T1", "R1">>, <<"T1", "R2">>, <<"T2", "R1">>, <<"T2", "R2">>, <<"T3", "R1">>, <<"T3", "R2">>,
      <<"R1", "O1">>, <<"R2", "O1">>, <<"R1", "E1">>, <<"R2", "E1">>,
      <<"O1", "T1">>, <<"O1", "T2">>, <<"O1", "T3">>,
      <<"T1", "T2">>, <<"T1", "T3">>, <<"T2", "T1">>, <<"T2", "T3">>, <<"T3", "T1">>, <<"T3", "T2">>,
      <<"T1", "T1">>,
      <<"I1", "T2">>, <<"E1", "T2">>, <<"R1", "T2">>>>

\* The strictly increasing index sequences of length at most k over lo..Len(CandidateEdges).
RECURSIVE Picks(_, _)
Picks(lo, k) ==
    IF k = 0 THEN {<<>>}
    ELSE {<<>>} \cup UNION {{<<i>> \o s : s \in Picks(i + 1, k - 1)} : i \in lo..Len(CandidateEdges)}

Reverse(s) == [i \in 1..Len(s) |-> s[Len(s) + 1 - i]]

\* The edge lists drawn: up to MaxEdges distinct candidate edges, in the
\* candidates' order or in the reverse order.
EdgeLists ==
    UNION {{[i \in 1..Len(s) |-> CandidateEdges[s[i]]],
            Reverse([i \in 1..Len(s) |-> CandidateEdges[s[i]]])} : s \in Picks(1, MaxEdges)}

\* ---------------------------------------------------------------- resolver
\* next((n for n in nodes if n['id'] == node_id), None)
get_node_by_id(ns, node_id) ==
    LET hits == SelectSeq(ns, LAMBDA n : n.id = node_id)
    IN  IF hits = <<>> THEN None ELSE Head(hits)

\* [n for n in nodes if n['type'] == node_type]
get_nodes_by_type(ns, node_type) == SelectSeq(ns, LAMBDA n : n.type = node_type)

\* The from-nodes, in edge order, of the edges into `to` whose from-node starts with c.
froms(es, to, c) ==
    LET hits == SelectSeq(es, LAMBDA e : e[2] = to /\ startswith(e[1], c))
    IN  [i \in 1..Len(hits) |-> hits[i][1]]

\* For each id in turn: the content of its node, if it is declared.
RECURSIVE contents_of(_, _)
contents_of(ids, ns) ==
    IF ids = <<>> THEN <<>>
    ELSE LET n == get_node_by_id(ns, Head(ids))
         IN  (IF n # None THEN <<n.content>> ELSE <<>>) \o contents_of(Tail(ids), ns)

\* Method 2, inner loops: for each runnable, the tasks with an edge into it.
RECURSIVE tasks_of_runnables(_, _, _)
tasks_of_runnables(rs, es, ns) ==
    IF rs = <<>> THEN <<>>
    ELSE contents_of(froms(es, Head(rs), "T"), ns) \o tasks_of_runnables(Tail(rs), es, ns)

\* Method 2, outer loop: for each output with an edge into the task, its runnables.
RECURSIVE tasks_of_outputs(_, _, _)
tasks_of_outputs(os, es, ns) ==
    IF os = <<>> THEN <<>>
    ELSE tasks_of_runnables(froms(es, Head(os), "R"), es, ns) \o tasks_of_outputs(Tail(os), es, ns)

\* trace_task_dependencies without Method 2.
trace_task_dependencies_direct(task_id, es, ns) ==
    ToSet(contents_of(froms(es, task_id, "T"), ns))

\* trace_task_dependencies: list(set(dependencies)).
trace_task_dependencies(task_id, es, ns) ==
    LET method1 == contents_of(froms(es, task_id, "T"), ns)
        method2 == tasks_of_outputs(froms(es, task_id, "O"), es, ns)
    IN  ToSet(method1 \o method2)

\* all(any(sorted_task['content'] == dep for sorted_task in sorted_tasks) for dep in dependencies)
deps_satisfied(task, sorted_tasks, es, task_nodes) ==
    \A dep \in trace_task_dependencies(task.id, es, task_nodes) :
        \E i \in 1..Len(sorted_tasks) : sorted_tasks[i].content = dep

\* The while loop of sort_tasks_by_dependencies; `rounds` records each pass.
RECURSIVE sort_loop(_, _, _, _, _)
sort_loop(sorted_tasks, remaining_tasks, task_nodes, es, rounds) ==
    IF remaining_tasks = <<>> THEN [sorted |-> sorted_tasks, rounds |-> rounds]
    ELSE LET found == SelectSeq(remaining_tasks,
                                LAMBDA t : deps_satisfied(t, sorted_tasks, es, task_nodes))
             ready == IF found = <<>> THEN <<remaining_tasks[1]>> ELSE found
         IN  sort_loop(sorted_tasks \o ready,
                       SelectSeq(remaining_tasks, LAMBDA t : t \notin ToSet(ready)),
                       task_nodes, es,
                       Append(rounds, [ready |-> ready, warning |-> found = <<>>]))

\* The while loop stopping, instead of taking remaining_tasks[0], when no task is ready.
RECURSIVE sort_loop_no_fallback(_, _, _, _, _)
sort_loop_no_fallback(sorted_tasks, remaining_tasks, task_nodes, es, rounds) ==
    LET found == SelectSeq(remaining_tasks,
                           LAMBDA t : deps_satisfied(t, sorted_tasks, es, task_nodes))
    IN  IF found = <<>> THEN [sorted |-> sorted_tasks, rounds |-> rounds]
        ELSE sort_loop_no_fallback(sorted_tasks \o found,
                                   SelectSeq(remaining_tasks, LAMBDA t : t \notin ToSet(found)),
                                   task_nodes, es,
                                   Append(rounds, [ready |-> found, warning |-> FALSE]))

sort_tasks_by_dependencies_no_fallback(task_nodes, es) ==
    sort_loop_no_fallback(<<>>, task_nodes, task_nodes, es, <<>>)

\* sort_tasks_by_dependencies returning its input unsorted.
sort_tasks_by_dependencies_unsorted(task_nodes, es) ==
    [sorted |-> task_nodes, rounds |-> <<[ready |-> task_nodes, warning |-> FALSE]>>]

sort_tasks_by_dependencies(task_nodes, es) ==
    sort_loop(<<>>, task_nodes, task_nodes, es, <<>>)

\* The first from-node of an edge into `to` that starts with c (the loop with break).
first_from(es, to, c) ==
    LET hits == froms(es, to, c) IN IF hits = <<>> THEN NoId ELSE Head(hits)

\* The body of `for export_id in export_nodes`: what it appends to final_tasks.
final_task_of(export_id, es, ns) ==
    LET producing_runnable == first_from(es, export_id, "R")
    IN  IF producing_runnable = NoId THEN <<>>
        ELSE LET task == first_from(es, producing_runnable, "T")
             IN  IF task = NoId THEN <<>> ELSE contents_of(<<task>>, ns)

RECURSIVE final_tasks_of(_, _, _)
final_tasks_of(export_nodes, es, ns) ==
    IF export_nodes = <<>> THEN <<>>
    ELSE final_task_of(Head(export_nodes).id, es, ns) \o final_tasks_of(Tail(export_nodes), es, ns)

\* get_final_tasks_from_listener without its two break statements.
RECURSIVE final_tasks_of_all_runnables(_, _, _)
final_tasks_of_all_runnables(export_nodes, es, ns) ==
    IF export_nodes = <<>> THEN <<>>
    ELSE tasks_of_runnables(froms(es, Head(export_nodes).id, "R"), es, ns)
            \o final_tasks_of_all_runnables(Tail(export_nodes), es, ns)

get_final_tasks_unbroken(ns, es) ==
    ToSet(final_tasks_of_all_runnables(get_nodes_by_type(ns, "E"), es, ns))

\* get_final_tasks_from_listener: list(set(final_tasks)).
get_final_tasks_from_listener(ns, es) ==
    ToSet(final_tasks_of(get_nodes_by_type(ns, "E"), es, ns))

\* generate_all_task with every task as a precondition.
generate_all_task_every(ns, es) ==
    [present |-> TRUE, pre |-> ToSet(contents_of(<<"T1", "T2", "T3">>, ns)), smart_task |-> FALSE]

\* generate_all_task: "" when there is no final task, else a task whose pre list
\* is final_tasks and whose body only prints.
generate_all_task(ns, es) ==
    LET final_tasks == get_final_tasks_from_listener(ns, es)
    IN  IF final_tasks = {} THEN [present |-> FALSE]
        ELSE [present |-> TRUE, pre |-> final_tasks, smart_task |-> FALSE]

\* str.replace('BWV000', '{PROJECT_NAME}') on the labels above.
replace_project_name(text) ==
    CASE text = "BWV000.svg" -> "{PROJECT_NAME}.svg"
      [] text = "exports/BWV000.pdf" -> "exports/{PROJECT_NAME}.pdf"
      [] text = "BWV000.ly" -> "{PROJECT_NAME}.ly"
      [] text = "BWV000_ties.csv" -> "{PROJECT_NAME}_ties.csv"
      [] text = "BWV000_optimized.svg" -> "{PROJECT_NAME}_optimized.svg"
      [] OTHER -> text

\* 'docker' in command.lower() and 'run' in command.lower()
is_docker(command) == command = DockerCommand
\* command.startswith('bwv_script:')
is_bwv_script(command) == command \in {ScriptCommand, ScriptNoOutputCommand}

\* re.search(r'"-o",\s*f?"([^"]+)"', command): the argument after -o in the
\* run_bwv_script(...) call made from the label, BWV000 already replaced.
output_argument(command) ==
    IF command = ScriptCommand THEN replace_project_name("BWV000_ties.csv") ELSE NoId

NoCommand == [kind |-> "None", runnable |-> NoId, output |-> NoId]

\* The loop of get_task_command over the runnables the task has an edge to: the
\* first one that is declared and is a docker or a bwv_script command decides.
RECURSIVE command_of(_, _)
command_of(rs, ns) ==
    IF rs = <<>> THEN NoCommand
    ELSE LET runnable_node == get_node_by_id(ns, Head(rs))
         IN  IF runnable_node # None /\ is_docker(runnable_node.content)
             THEN [kind |-> "docker", runnable |-> Head(rs), output |-> NoId]
             ELSE IF runnable_node # None /\ is_bwv_script(runnable_node.content)
             THEN [kind |-> "run_bwv_script", runnable |-> Head(rs),
                   output |-> output_argument(runnable_node.content)]
             ELSE command_of(Tail(rs), ns)

\* The to-nodes, in edge order, of the edges out of `from` whose to-node starts with one of cs.
tos(es, from, cs) ==
    LET hits == SelectSeq(es, LAMBDA e : e[1] = from /\ FirstChar(e[2]) \in cs)
    IN  [i \in 1..Len(hits) |-> hits[i][2]]

\* get_task_command that makes up a command when the task has no runnable.
get_task_command_default(task_id, es, ns) ==
    LET c == command_of(tos(es, task_id, {"R"}), ns)
    IN  IF c = NoCommand THEN [kind |-> "docker", runnable |-> NoId, output |-> NoId] ELSE c

get_task_command(task_id, es, ns) == command_of(tos(es, task_id, {"R"}), ns)

RECURSIVE replaced_contents_of(_, _)
replaced_contents_of(ids, ns) ==
    IF ids = <<>> THEN <<>>
    ELSE LET n == get_node_by_id(ns, Head(ids))
         IN  (IF n # None THEN <<replace_project_name(n.content)>> ELSE <<>>)
                \o replaced_contents_of(Tail(ids), ns)

\* get_task_targets without the "-o" fallback.
get_task_targets_no_fallback(task_id, es, ns) ==
    LET rs == tos(es, task_id, {"R"})
    IN  IF rs = <<>> THEN <<>> ELSE replaced_contents_of(tos(es, Head(rs), {"O", "E"}), ns)

get_task_targets(task_id, es, ns) ==
    LET rs          == tos(es, task_id, {"R"})
        runnable_id == IF rs = <<>> THEN NoId ELSE Head(rs)
        targets     == IF runnable_id = NoId THEN <<>>
                       ELSE replaced_contents_of(tos(es, runnable_id, {"O", "E"}), ns)
        command     == get_task_command(task_id, es, ns)
    IN  IF targets # <<>> THEN targets
        ELSE IF command.kind = "run_bwv_script" /\ command.output # NoId
        THEN <<command.output>>
        ELSE <<>>

\* '.ly' in src
is_ly(path) == path \in {"{PROJECT_NAME}.ly", "a.ly"}

\* get_task_sources that takes every edge into the task for a source.
get_task_sources_any_edge(task_id, es, ns) ==
    LET hits == SelectSeq(es, LAMBDA e : e[2] = task_id)
        path_sources == replaced_contents_of([i \in 1..Len(hits) |-> hits[i][1]], ns)
        has_ly_files == \E i \in 1..Len(path_sources) : is_ly(path_sources[i])
    IN  [paths |-> path_sources, shared_ly_sources |-> path_sources # <<>> /\ has_ly_files]

get_task_sources(task_id, es, ns) ==
    LET hits == SelectSeq(es, LAMBDA e : e[2] = task_id /\ FirstChar(e[1]) \in {"I", "O"})
        path_sources == replaced_contents_of([i \in 1..Len(hits) |-> hits[i][1]], ns)
        has_ly_files == \E i \in 1..Len(path_sources) : is_ly(path_sources[i])
    IN  [paths |-> path_sources, shared_ly_sources |-> path_sources # <<>> /\ has_ly_files]

\* One pass of `for task_node in task_nodes` in generate_tasks_file: the
\* generated task function, as a descriptor.
task_code(task_node, es, ns) ==
    LET dependencies == trace_task_dependencies(task_node.id, es, ns)
        sources      == get_task_sources(task_node.id, es, ns)
        targets      == get_task_targets(task_node.id, es, ns)
        command      == get_task_command(task_node.id, es, ns)
    IN  IF command # NoCommand
        THEN [id |-> task_node.id, name |-> task_node.content, pre |-> dependencies,
              body |-> "smart_task", sources |-> sources, targets |-> targets,
              commands |-> IF command.kind = "run_bwv_script" THEN 0 ELSE 1,
              python_func |-> command.kind = "run_bwv_script"]
        ELSE [id |-> task_node.id, name |-> task_node.content, pre |-> dependencies,
              body |-> "pass", sources |-> [paths |-> <<>>, shared_ly_sources |-> FALSE],
              targets |-> <<>>, commands |-> 0, python_func |-> FALSE]

\* node['content'].replace('BWV000', '{PROJECT_NAME}') for each node of a list.
file_names(ns) == [i \in 1..Len(ns) |-> replace_project_name(ns[i].content)]

\* filename.endswith('.csv') or 'generated' in filename.lower()
is_generated_input(filename) == filename \in {"{PROJECT_NAME}_ties.csv"}

generated_inputs(ns) ==
    SelectSeq(file_names(get_nodes_by_type(ns, "I")), is_generated_input)

\* generate_status_task: the status_files list of the generated status task.
generate_status_task(ns) ==
    LET exports == file_names(get_nodes_by_type(ns, "E"))
        outputs == file_names(get_nodes_by_type(ns, "O"))
        inputs  == generated_inputs(ns)
    IN  [i \in 1..Len(exports) |-> <<"Export", exports[i]>>]
            \o [i \in 1..Len(outputs) |-> <<"Output", outputs[i]>>]
            \o [i \in 1..Len(inputs) |-> <<"Input", inputs[i]>>]

\* generate_clean_task with the export files in its list as well.
generate_clean_task_exports(ns) ==
    file_names(get_nodes_by_type(ns, "E")) \o file_names(get_nodes_by_type(ns, "O"))
        \o generated_inputs(ns)

\* generate_clean_task: the target_files list of the generated clean task.
generate_clean_task(ns) ==
    file_names(get_nodes_by_type(ns, "O")) \o generated_inputs(ns)

\* generate_clean_all_task without the export files.
generate_clean_all_task_outputs(ns) ==
    file_names(get_nodes_by_type(ns, "O")) \o generated_inputs(ns)

\* generate_clean_all_task: the target_files list of the generated clean_all task.
generate_clean_all_task(ns) ==
    file_names(get_nodes_by_type(ns, "E")) \o file_names(get_nodes_by_type(ns, "O"))
        \o generated_inputs(ns)

\* generate_info_task: the pipeline_tasks list of the generated info task.
generate_info_task(ns) ==
    LET task_nodes == get_nodes_by_type(ns, "T")
    IN  [i \in 1..Len(task_nodes) |-> task_nodes[i].content]

\* The meta tasks of the file template with an `all` task in every file.
meta_tasks_always_all(all_task) == <<"status", "clean", "clean_all", "all", "info">>

\* The meta tasks in the order of the file template; {all_task if all_task else ""}.
meta_tasks(all_task) ==
    <<"status", "clean", "clean_all">> \o (IF all_task.present THEN <<"all">> ELSE <<>>) \o <<"info">>

\* generate_tasks_file: the pipeline tasks in sorted order, then the meta tasks.
generate_tasks_file(ns, es) ==
    LET sorting    == sort_tasks_by_dependencies(get_nodes_by_type(ns, "T"), es)
        task_nodes == sorting.sorted
    IN  [tasks          |-> [i \in 1..Len(task_nodes) |-> task_code(task_nodes[i], es, ns)],
         rounds         |-> sorting.rounds,
         all_task       |-> generate_all_task(ns, es),
         final_tasks    |-> get_final_tasks_from_listener(ns, es),
         status_task    |-> generate_status_task(ns),
         clean_task     |-> generate_clean_task(ns),
         clean_all_task |-> generate_clean_all_task(ns),
         info_task      |-> generate_info_task(ns),
         meta           |-> meta_tasks(generate_all_task(ns, es))]

\* The listener has walked a parse tree: any of the node and edge lists.
GraphInit ==
    /\ nodes \in NodeLists
    /\ edges \in EdgeLists
    /\ gpc = "parsed"
    /\ artifact = NoArtifact
    /\ pipeline = [t \in TaskNames |-> [sources |-> {}, targets |-> {}]]
    /\ disk = [p \in Paths |-> 0]
    /\ cache_file = [exists |-> FALSE, data |-> EmptyMap]
    /\ pc = "off"
    /\ idx = 1
    /\ inv = NoInv
    /\ outcome = NoOutcome
    /\ run = NewRunState
    /\ prev = "none"
    /\ edited = FALSE
    /\ snapshot = NoSnapshot
    /\ cli = NoCli
    /\ last = NoLast
    /\ procs = NoProcs

\* generate_tasks_file(listener).
Generate ==
    /\ gpc = "parsed"
    /\ artifact' = generate_tasks_file(nodes, edges)
    /\ gpc' = "generated"
    /\ UNCHANGED <<nodes, edges>>
    /\ UNCHANGED <<evars, snapshot, cli, last, procs>>

GraphNext == Generate

GraphSpec == GraphInit /\ [][GraphNext]_vars

\* ---------------------------------------------------------------- file graphs
\* A second family of parsed graphs, with the input, output and export files
\* of a pipeline.

\* The longest edge list drawn for the file graphs.
MaxFileEdges == 4

\* Scenario A of the specification.
ScenarioANodes ==
    <<Node("I1", "a.ly"), Node("T1", "compile"), Node("R1", LilypondCommand), Node("O1", "a.pdf")>>

PipelineNodes(r1, r2) ==
    <<Node("I1", "BWV000.ly"), Node("I2", "BWV000_ties.csv"),
      Node("T1", "t1"), Node("T2", "t2"), Node("R1", r1), Node("R2", r2),
      Node("O1", "BWV000.svg"), Node("O2", "BWV000_optimized.svg"),
      Node("E1", "exports/BWV000.pdf")>>

\* The node lists drawn: scenario A; a two-task pipeline whose runnables are a
\* docker command, a script call with or without -o, or an unrecognised
\* command; that pipeline with no export and an undeclared output; a graph
\* with no task.
FileNodeLists ==
    {ScenarioANodes,
     PipelineNodes(DockerCommand, ScriptCommand),
     PipelineNodes(DockerCommand, ScriptNoOutputCommand),
     PipelineNodes(OtherCommand, ScriptCommand),
     Without(Without(PipelineNodes(DockerCommand, ScriptCommand), "O2"), "E1"),
     <<Node("I1", "BWV000.ly"), Node("O1", "BWV000.svg")>>}

FileCandidateEdges ==
    <<<<"I1", "T1">>, <<"I2", "T1">>, <<"O1", "T1">>, <<"O1", "T2">>,
      <<"E1", "T1">>, <<"T2", "T1">>, <<"R2", "T1">>,
      <<"T1", "R1">>, <<"T1", "R2">>, <<"T2", "R2">>,
      <<"R1", "O1">>, <<"R1", "O2">>, <<"R1", "E1">>, <<"R2", "O2">>, <<"R1", "I2">>>>

RECURSIVE FilePicks(_, _)
FilePicks(lo, k) ==
    IF k = 0 THEN {<<>>}
    ELSE {<<>>} \cup UNION {{<<i>> \o s : s \in FilePicks(i + 1, k - 1)} : i \in lo..Len(FileCandidateEdges)}

\* Up to MaxFileEdges distinct candidate edges, in the candidates' order or reversed.
FileEdgeLists ==
    UNION {{[i \in 1..Len(s) |-> FileCandidateEdges[s[i]]],
            Reverse([i \in 1..Len(s) |-> FileCandidateEdges[s[i]]])} : s \in FilePicks(1, MaxFileEdges)}

FilesInit ==
    /\ nodes \in FileNodeLists
    /\ edges \in FileEdgeLists
    /\ gpc = "parsed"
    /\ artifact = NoArtifact
    /\ pipeline = [t \in TaskNames |-> [sources |-> {}, targets |-> {}]]
    /\ disk = [p \in Paths |-> 0]
    /\ cache_file = [exists |-> FALSE, data |-> EmptyMap]
    /\ pc = "off"
    /\ idx = 1
    /\ inv = NoInv
    /\ outcome = NoOutcome
    /\ run = NewRunState
    /\ prev = "none"
    /\ edited = FALSE
    /\ snapshot = NoSnapshot
    /\ cli = NoCli
    /\ last = NoLast
    /\ procs = NoProcs

FilesNext == Generate

FilesSpec == FilesInit /\ [][FilesNext]_vars

\* ---------------------------------------------------------------- clean tasks
\* The generated clean and clean_all tasks, run on the files the graph names.

\* A graph in which an input, an output and an export node name the same file.
SharedFileNodes ==
    <<Node("I1", "BWV000.svg"), Node("I2", "BWV000_ties.csv"), Node("T1", "t1"),
      Node("O1", "BWV000.svg"), Node("E1", "BWV000.svg")>>

CleanNodeLists ==
    {PipelineNodes(DockerCommand, ScriptCommand),
     Without(Without(PipelineNodes(DockerCommand, ScriptCommand), "O2"), "E1"),
     <<Node("I1", "BWV000.ly"), Node("O1", "BWV000.svg")>>,
     SharedFileNodes}

\* The files the nodes of a type name.
FilesOfType(ns, c) == ToSet(file_names(get_nodes_by_type(ns, c)))

NodeFiles(ns) == FilesOfType(ns, "I") \cup FilesOfType(ns, "O") \cup FilesOfType(ns, "E")

NoCacheFile == [exists |-> FALSE, data |-> EmptyMap]

CleanInit ==
    /\ nodes \in CleanNodeLists
    /\ edges = <<>>
    /\ gpc = "parsed"
    /\ artifact = NoArtifact
    /\ disk \in [NodeFiles(nodes) -> 0..MaxContent]
    /\ cache_file \in {NoCacheFile, save_cache(EmptyMap)}
    /\ pipeline = [t \in TaskNames |-> [sources |-> {}, targets |-> {}]]
    /\ pc = "off"
    /\ idx = 1
    /\ inv = NoInv
    /\ outcome = NoOutcome
    /\ run = NewRunState
    /\ prev = "none"
    /\ edited = FALSE
    /\ snapshot = NoSnapshot
    /\ cli = NoCli
    /\ last = NoLast
    /\ procs = NoProcs

\* for filename in target_files: if path.exists(): path.unlink()
unlink_files(target_files, d) ==
    [p \in DOMAIN d |-> IF p \in ToSet(target_files) THEN 0 ELSE d[p]]

\* if cache_file.exists(): cache_file.unlink()
unlink_cache(cf) == NoCacheFile

\* The generated clean task runs.
Clean ==
    /\ gpc = "generated"
    /\ disk' = unlink_files(artifact.clean_task, disk)
    /\ cache_file' = unlink_cache(cache_file)
    /\ gpc' = "cleaned"
    /\ UNCHANGED <<nodes, edges, artifact>>
    /\ UNCHANGED <<pipeline, pc, idx, inv, outcome, run, prev, edited, snapshot, cli, last, procs>>

\* The generated clean_all task runs.
CleanAll ==
    /\ gpc = "generated"
    /\ disk' = unlink_files(artifact.clean_all_task, disk)
    /\ cache_file' = unlink_cache(cache_file)
    /\ gpc' = "cleaned_all"
    /\ UNCHANGED <<nodes, edges, artifact>>
    /\ UNCHANGED <<pipeline, pc, idx, inv, outcome, run, prev, edited, snapshot, cli, last, procs>>

CleanNext ==
    \/ Generate
    \/ Clean
    \/ CleanAll

CleanSpec == CleanInit /\ [][CleanNext]_vars

\* ---------------------------------------------------------------- generator command line
\* main() of tasks_mermaid_generator.py: one process, from the parsing of its
\* arguments to its exit. cli.given are the options on the command line,
\* cli.input_exists whether the file named by -i exists, cli.parses whether the
\* parser and the listener get through it without raising, cli.writable whether
\* write_text succeeds on the file named by -o; nodes and edges are what the
\* listener collects from the input; artifact is tasks_content, NoArtifact
\* standing for the empty string.

RequiredOptions == {"-i", "-o"}

CliEdgeLists ==
    {<<>>,
     <<<<"I1", "T1">>, <<"T1", "R1">>, <<"R1", "O1">>>>,
     <<<<"I1", "T1">>, <<"T1", "R1">>, <<"R1", "O1">>, <<"O1", "T2">>, <<"T2", "R2">>, <<"R2", "O2">>>>}

CliInit ==
    /\ cli \in [pos : {"parse_args"}, given : SUBSET RequiredOptions,
                input_exists : BOOLEAN, parses : BOOLEAN, writable : BOOLEAN,
                output_exists : BOOLEAN, output_written : {FALSE}, exit_code : {0}]
    /\ nodes \in IF cli.input_exists /\ cli.parses THEN FileNodeLists ELSE {<<>>}
    /\ edges \in IF cli.input_exists /\ cli.parses THEN CliEdgeLists ELSE {<<>>}
    /\ gpc = "off"
    /\ artifact = NoArtifact
    /\ pipeline = [t \in TaskNames |-> [sources |-> {}, targets |-> {}]]
    /\ disk = [p \in Paths |-> 0]
    /\ cache_file = [exists |-> FALSE, data |-> EmptyMap]
    /\ pc = "off"
    /\ idx = 1
    /\ inv = NoInv
    /\ outcome = NoOutcome
    /\ run = NewRunState
    /\ prev = "none"
    /\ edited = FALSE
    /\ snapshot = NoSnapshot
    /\ last = NoLast
    /\ procs = NoProcs

\* sys.exit(code), or main() returning (code 0).
sys_exit(c, code) == [c EXCEPT !.pos = "exited", !.exit_code = code]

\* parser.parse_args() with -i and -o both required=True: argparse reports a
\* missing option as a usage error and exits with status 2.
parse_args(c) ==
    IF c.given # RequiredOptions THEN sys_exit(c, 2)
    ELSE [c EXCEPT !.pos = "check_input"]

ParseArgs ==
    /\ cli.pos = "parse_args"
    /\ cli' = parse_args(cli)
    /\ UNCHANGED <<evars, gvars, snapshot, last, procs>>

\* if not input_path.exists(): sys.exit(1)
check_input(c) ==
    IF ~c.input_exists THEN sys_exit(c, 1)
    ELSE [c EXCEPT !.pos = "generate"]

CheckInput ==
    /\ cli.pos = "check_input"
    /\ cli' = check_input(cli)
    /\ UNCHANGED <<evars, gvars, snapshot, last, procs>>

\* As generate_full_tasks, with a parse that raised taken for an empty graph.
generate_full_tasks_unchecked(c, ns, es) ==
    IF ~c.input_exists THEN NoArtifact
    ELSE generate_tasks_file(ns, es)

\* generate_full_tasks(mermaid_file): "" when the file is not there or when
\* anything from read_text to generate_tasks_file raised.
generate_full_tasks(c, ns, es) ==
    IF ~c.input_exists THEN NoArtifact
    ELSE IF ~c.parses THEN NoArtifact
    ELSE generate_tasks_file(ns, es)

GenerateFullTasks ==
    /\ cli.pos = "generate"
    /\ artifact' = generate_full_tasks(cli, nodes, edges)
    /\ cli' = [cli EXCEPT !.pos = "write"]
    /\ UNCHANGED <<nodes, edges, gpc>>
    /\ UNCHANGED <<evars, snapshot, last, procs>>

\* if tasks_content: output_path.write_text(tasks_content), sys.exit(1) when it
\* raises; else sys.exit(1).
write_output(c, tasks_content) ==
    IF tasks_content # NoArtifact
    THEN IF c.writable
         THEN sys_exit([c EXCEPT !.output_exists = TRUE, !.output_written = TRUE], 0)
         ELSE sys_exit(c, 1)
    ELSE sys_exit(c, 1)

WriteOutput ==
    /\ cli.pos = "write"
    /\ cli' = write_output(cli, artifact)
    /\ UNCHANGED <<evars, gvars, snapshot, last, procs>>

CliNext ==
    \/ ParseArgs
    \/ CheckInput
    \/ GenerateFullTasks
    \/ WriteOutput

CliSpec == CliInit /\ [][CliNext]_vars

\* ---------------------------------------------------------------- concurrent builds
\* Up to MaxProcs build processes in one directory, each calling smart_task
\* (force=False) for the tasks of its list. Only sources_changed touches the
\* cache file: it reads the whole file (load_cache), and when the hashes differ
\* it writes the whole file (save_cache), with no lock around the two.
\* write_text first truncates the file and then writes it, so a reader or a
\* second writer can meet it half written. The tasks here read one file each
\* and write none, so that the commands leave the disk alone.

\* The file while a write_text is under way, or after two writes ran into each
\* other: not a JSON document.
TornCache == [exists |-> TRUE, data |-> [t \in {"torn"} |-> EmptyMap]]

TodoLists == {<<"t1">>, <<"t2">>, <<"t1", "t2">>}

ConcurrentPipeline ==
    [t \in TaskNames |-> [sources |-> IF t = "t1" THEN {"a"} ELSE {"b"}, targets |-> {}]]

\* A build process about to call sources_changed for the first task of its
\* list: its local `cache` dict, and what it has saved for each task so far.
NewProc(todo) ==
    [pc |-> "load", todo |-> todo, cache |-> EmptyMap, persisted |-> EmptyMap, raced |-> FALSE]

ConcurrentInit ==
    /\ \E n \in 1..MaxProcs : procs \in [1..n -> {NewProc(todo) : todo \in TodoLists}]
    /\ pipeline = ConcurrentPipeline
    /\ disk \in [Paths -> 0..MaxContent]
    /\ cache_file \in {NoCacheFile, save_cache(EmptyMap)}
    /\ pc = "off"
    /\ idx = 1
    /\ inv = NoInv
    /\ outcome = NoOutcome
    /\ run = NewRunState
    /\ prev = "none"
    /\ edited = FALSE
    /\ snapshot = NoSnapshot
    /\ cli = NoCli
    /\ last = NoLast
    /\ nodes = <<>>
    /\ edges = <<>>
    /\ gpc = "off"
    /\ artifact = NoArtifact

\* cache[task_name] = current_hashes with every other entry dropped.
updated_cache_alone(cache, task_name, current) == Put(EmptyMap, task_name, current)

\* cache[task_name] = current_hashes
updated_cache(cache, task_name, current) == Put(cache, task_name, current)

\* The other processes that are inside write_text see a second writer.
others_raced(p) ==
    [q \in DOMAIN procs |->
        IF q # p /\ procs[q].pc = "writing" THEN [procs[q] EXCEPT !.raced = TRUE] ELSE procs[q]]

\* sources_changed up to its `if changed` (lines 222-226): load_cache, the
\* hashes, the comparison. json.loads raises on a half written file.
LoadCache(p) ==
    /\ procs[p].pc = "load"
    /\ LET task_name == Head(procs[p].todo)
           current   == current_hashes(pipeline[task_name].sources, disk)
           cache     == load_cache(cache_file)
           changed   == current # cache_get(cache, task_name)
       IN  procs' = [procs EXCEPT ![p] =
                        IF cache_file = TornCache THEN [@ EXCEPT !.pc = "crashed"]
                        ELSE IF changed
                        THEN [@ EXCEPT !.pc = "save", !.cache = updated_cache(cache, task_name, current)]
                        ELSE [@ EXCEPT !.pc = "returned", !.cache = cache]]
    /\ UNCHANGED <<pipeline, disk, cache_file, pc, idx, inv, outcome, run, prev, edited>>
    /\ UNCHANGED <<gvars, snapshot, cli, last>>

\* save_cache, first half: write_text opens the file for writing, which
\* empties it.
TruncateCache(p) ==
    /\ procs[p].pc = "save"
    /\ cache_file' = TornCache
    /\ procs' = [others_raced(p) EXCEPT ![p] = [@ EXCEPT !.pc = "writing", !.raced = FALSE]]
    /\ UNCHANGED <<pipeline, disk, pc, idx, inv, outcome, run, prev, edited>>
    /\ UNCHANGED <<gvars, snapshot, cli, last>>

\* save_cache, second half: the JSON text is written and the file closed. When
\* another write_text ran in the meantime the file holds this text or a mix.
WriteCache(p, mixed) ==
    /\ procs[p].pc = "writing"
    /\ mixed => procs[p].raced
    /\ cache_file' = IF mixed THEN TornCache ELSE save_cache(procs[p].cache)
    /\ procs' = [others_raced(p) EXCEPT ![p] =
                    [@ EXCEPT !.pc = "returned",
                              !.persisted = Put(@, Head(procs[p].todo),
                                                procs[p].cache[Head(procs[p].todo)])]]
    /\ UNCHANGED <<pipeline, disk, pc, idx, inv, outcome, run, prev, edited>>
    /\ UNCHANGED <<gvars, snapshot, cli, last>>

\* The rest of smart_task, which leaves the cache file alone; then the next
\* task of the process, if any.
TaskReturns(p) ==
    /\ procs[p].pc = "returned"
    /\ procs' = [procs EXCEPT ![p] =
                    [@ EXCEPT !.todo = Tail(@),
                              !.pc = IF Len(procs[p].todo) > 1 THEN "load" ELSE "done"]]
    /\ UNCHANGED <<pipeline, disk, cache_file, pc, idx, inv, outcome, run, prev, edited>>
    /\ UNCHANGED <<gvars, snapshot, cli, last>>

ConcurrentNext ==
    \/ \E p \in DOMAIN procs : LoadCache(p)
    \/ \E p \in DOMAIN procs : TruncateCache(p)
    \/ \E p \in DOMAIN procs, mixed \in BOOLEAN : WriteCache(p, mixed)
    \/ \E p \in DOMAIN procs : TaskReturns(p)

ConcurrentSpec == ConcurrentInit /\ [][ConcurrentNext]_vars

\* ================================================================ claims
\* The step in which smart_task takes its rebuild decision.
Decides == pc = "start" /\ pc' \in {"remove", "up_to_date"}

\* C1: a task invocation rebuilds if and only if force is set, or the task name
\* is absent from the persisted cache, or the map of the hashes of its existing
\* sources differs from cache[taskName]; so a task not yet in the cache rebuilds
\* whatever its sources are.
C1_RebuildIff ==
    [][Decides =>
        LET name    == TaskOrder[idx]
            cache   == load_cache(cache_file)
            current == current_hashes(pipeline[name].sources, disk)
            differs == IF name \in DOMAIN cache THEN current # cache[name] ELSE TRUE
        IN  (pc' = "remove") <=> (inv'.force \/ name \notin DOMAIN cache \/ differs)]_vars

\* C2 as claimed: whenever an invocation has decided to rebuild, for whatever
\* reason, cache[taskName] holds the current source hashes on disk before
\* remove_outputs and the first command run.
C2_WriteBeforeExecute ==
    pc = "remove" =>
        /\ cache_file.exists
        /\ inv.task \in DOMAIN cache_file.data
        /\ cache_file.data[inv.task] = current_hashes(pipeline[inv.task].sources, disk)

\* C2 as amended: a non-forced invocation that decides to rebuild has written
\* cache[taskName] := current hashes to the cache file in the deciding step,
\* before remove_outputs and any command; a forced invocation rebuilds and
\* leaves the cache file exactly as it was.
C2_WriteBeforeExecuteUnlessForced ==
    [][(Decides /\ pc' = "remove") =>
        IF inv'.force
        THEN cache_file' = cache_file
        ELSE /\ cache_file'.exists
             /\ inv'.task \in DOMAIN cache_file'.data
             /\ cache_file'.data[inv'.task]
                    = current_hashes(pipeline[inv'.task].sources, disk')
             /\ \A t \in DOMAIN load_cache(cache_file) \ {inv'.task} :
                    /\ t \in DOMAIN cache_file'.data
                    /\ cache_file'.data[t] = load_cache(cache_file)[t]]_vars

C2_Witness ==
    /\ pc = "remove"
    /\ ~inv.force
    /\ cache_file.exists
    /\ inv.task \in DOMAIN cache_file.data
    /\ cache_file.data[inv.task] # EmptyMap
    /\ pipeline[inv.task].targets # {}

\* No task writes a file that it reads itself or that a task run before it reads.
NoFeedback ==
    \A i \in 1..Len(TaskOrder) : \A j \in i..Len(TaskOrder) :
        pipeline[TaskOrder[j]].targets \cap pipeline[TaskOrder[i]].sources = {}

\* C3 as claimed: in a build that follows a successfully completed build, with
\* no source file changed in between, no task rebuilds.
C3_RoundTrip ==
    (prev \in {"ok", "ok_forced"} /\ ~run.forced) => run.rebuilt = {}

\* C3 as amended: the same, provided the first build forced no task and no task
\* writes a source of itself or of a task that runs before it.
C3_RoundTripUnforcedNoFeedback ==
    (prev = "ok" /\ ~run.forced /\ NoFeedback) => run.rebuilt = {}

C3_Witness ==
    /\ prev = "ok" /\ ~run.forced /\ NoFeedback
    /\ pc = "idle" /\ outcome.kind = "ok" /\ run.rebuilt = {}
    /\ cache_file.exists
    /\ \A t \in TaskNames : t \in DOMAIN cache_file.data /\ cache_file.data[t] # EmptyMap
    /\ pipeline[TaskOrder[1]].targets \cap pipeline[TaskOrder[2]].sources # {}

\* C4: after the last command (or the callable) of a rebuilding task succeeded
\* the targets are checked; if some are missing the run ends in a missing-target
\* error naming the task and exactly the missing targets, and the task
\* completes only if every target exists.
C4_TargetValidation ==
    [][/\ (pc = "commands" /\ pc' # "commands" /\ outcome'.kind # "command") => pc' = "validate"
       /\ (pc = "python_func" /\ outcome'.kind # "command") => pc' = "validate"
       /\ pc = "validate" =>
            LET missing == {p \in pipeline[inv.task].targets : disk[p] = 0}
            IN  IF missing # {}
                THEN /\ pc' = "idle"
                     /\ outcome'.kind = "missing"
                     /\ outcome'.task = inv.task
                     /\ outcome'.missing = missing
                     /\ outcome'.exit_code # 0
                ELSE /\ outcome'.kind \in {"none", "ok"}
                     /\ inv' = NoInv
                     /\ IF idx < Len(TaskOrder)
                        THEN pc' = "start" /\ idx' = idx + 1
                        ELSE pc' = "idle" /\ outcome'.kind = "ok"]_vars

C4_Witness ==
    /\ outcome.kind = "missing"
    /\ outcome.missing # {}
    /\ outcome.missing # pipeline[outcome.task].targets
    /\ inv.started = inv.commands

\* C5: when a command exits non-zero or the callable raises, the run is over
\* with a command-failure error: the targets of that task are not checked, no
\* later command of the task has started, and no other task has been invoked.
C5_FailureContainment ==
    outcome.kind = "command" =>
        /\ pc = "idle"
        /\ inv.task = outcome.task
        /\ TaskOrder[idx] = outcome.task
        /\ ~inv.validated
        /\ inv.started = outcome.command
        /\ outcome.missing = {}

C5_Witness ==
    /\ outcome.kind = "command"
    /\ pc = "idle"
    /\ inv.commands = 2
    /\ outcome.command = 1
    /\ idx = 1

\* ---------------------------------------------------------------- generator claims
EdgeSet == ToSet(edges)
DeclaredOfType(c) == ToSet(get_nodes_by_type(nodes, c))
names_of(tasks) == [i \in 1..Len(tasks) |-> tasks[i].name]

\* The names a task depends on directly, as the claims define them: (a) the
\* declared tasks with an edge into it, (b) the declared tasks with an edge to a
\* runnable that has an edge to an output that has an edge into it.
DirectDependencies(task_id) ==
    {x.content : x \in {n \in DeclaredOfType("T") : <<n.id, task_id>> \in EdgeSet}}
    \cup
    {x.content : x \in {n \in DeclaredOfType("T") :
        \E ot \in EdgeSet, ro \in EdgeSet :
            /\ ot[2] = task_id /\ startswith(ot[1], "O")
            /\ ro[2] = ot[1] /\ startswith(ro[1], "R")
            /\ <<n.id, ro[1]>> \in EdgeSet}}

DependenciesOfName(name) ==
    UNION {DirectDependencies(n.id) : n \in {m \in DeclaredOfType("T") : m.content = name}}

RECURSIVE Closure(_, _)
Closure(S, k) ==
    IF k = 0 THEN S ELSE Closure(S \cup UNION {DependenciesOfName(n) : n \in S}, k - 1)

\* No task depends, directly or through other tasks, on itself.
Acyclic ==
    \A n \in DeclaredOfType("T") :
        n.content \notin Closure(DependenciesOfName(n.content), Cardinality(DeclaredOfType("T")))

\* C6: in an acyclic graph every task is emitted after all the tasks named in
\* its direct dependencies (trace_task_dependencies).
C6_TopologicalOrder ==
    (gpc = "generated" /\ Acyclic) =>
        \A i \in 1..Len(artifact.tasks) :
            \A dep \in trace_task_dependencies(artifact.tasks[i].id, edges, nodes) :
                \E j \in 1..(i - 1) : artifact.tasks[j].name = dep

C6_Witness ==
    /\ gpc = "generated" /\ Acyclic
    /\ names_of(artifact.tasks) = <<"t3", "t2", "t1">>
    /\ artifact.tasks[2].pre = {"t3"}
    /\ artifact.tasks[3].pre = {"t2"}
    /\ <<"O1", "T1">> \in EdgeSet

ScenarioB ==
    /\ edges = <<<<"T1", "R1">>, <<"R1", "O1">>, <<"O1", "T2">>>>
    /\ {n.id : n \in DeclaredOfType("T")} = {"T1", "T2"}

\* C7: the dependencies of every generated task are exactly the names of (a)
\* the declared tasks with a Task->Task edge into it and (b) the declared tasks
\* X with X->R, R->O, O->T for some runnable R and output O, and nothing else;
\* for T1->R1->O1, O1->T2 that is {t1} for T2 and the order is [t1, t2].
C7_DirectDependencies ==
    gpc = "generated" =>
        /\ \A i \in 1..Len(artifact.tasks) :
              artifact.tasks[i].pre = DirectDependencies(artifact.tasks[i].id)
        /\ ScenarioB =>
              /\ names_of(artifact.tasks) = <<"t1", "t2">>
              /\ artifact.tasks[1].pre = {}
              /\ artifact.tasks[2].pre = {"t1"}

C7_Witness == gpc = "generated" /\ ScenarioB /\ artifact.tasks[2].pre = {"t1"}

\* The final tasks as C8 claims them: every declared task with an edge to a
\* runnable that has an edge to a declared export.
ClaimedFinalTasks ==
    {x.content : x \in {n \in DeclaredOfType("T") :
        \E r \in NodeIds, e \in DeclaredOfType("E") :
            startswith(r, "R") /\ <<n.id, r>> \in EdgeSet /\ <<r, e.id>> \in EdgeSet}}

\* Edge i is the first edge into its to-node from a node starting with c.
FirstInto(i, c) ==
    /\ startswith(edges[i][1], c)
    /\ \A k \in 1..(i - 1) : ~(edges[k][2] = edges[i][2] /\ startswith(edges[k][1], c))

\* The final tasks by first producer: for a declared export, the runnable of
\* the first Runnable->Export edge into it, and the declared task of the first
\* Task->Runnable edge into that runnable.
FirstProducerFinalTasks ==
    {x.content : x \in {n \in DeclaredOfType("T") :
        \E e \in DeclaredOfType("E") : \E i \in 1..Len(edges), j \in 1..Len(edges) :
            /\ edges[i][2] = e.id /\ FirstInto(i, "R")
            /\ edges[j][2] = edges[i][1] /\ FirstInto(j, "T")
            /\ edges[j][1] = n.id}}

\* Every export has at most one runnable with an edge into it, and every
\* runnable at most one task.
SingleProducers ==
    /\ \A e \in NodeIds : Cardinality({r \in NodeIds : startswith(r, "R") /\ <<r, e>> \in EdgeSet}) <= 1
    /\ \A r \in NodeIds : Cardinality({t \in NodeIds : startswith(t, "T") /\ <<t, r>> \in EdgeSet}) <= 1

ScenarioC ==
    /\ edges = <<<<"T1", "R1">>, <<"R1", "E1">>>>
    /\ DeclaredOfType("E") # {}

\* C9: the generated `all` task has exactly the final tasks as its pre list and
\* no smart_task call in its body; for T1->R1, R1->E1 the final tasks are [t1]
\* and `all` has pre=[t1].
C9_AllDependsOnFinalTasks ==
    gpc = "generated" =>
        /\ artifact.all_task.present =>
              /\ artifact.all_task.pre = artifact.final_tasks
              /\ artifact.all_task.pre = FirstProducerFinalTasks
              /\ ~artifact.all_task.smart_task
        /\ ScenarioC =>
              /\ artifact.final_tasks = {"t1"}
              /\ artifact.all_task.present
              /\ artifact.all_task.pre = {"t1"}

C9_Witness == gpc = "generated" /\ ScenarioC /\ artifact.all_task.present

HasRunnableEdge(task_id) == \E e \in EdgeSet : e[1] = task_id /\ startswith(e[2], "R")

\* C10: every declared task gets a generated task, and one with no
\* Task->Runnable edge gets a stub: no targets, no command, a body that is
\* only the no-op `pass`.
C10_StubGeneration ==
    gpc = "generated" =>
        /\ {artifact.tasks[i].id : i \in 1..Len(artifact.tasks)} = {n.id : n \in DeclaredOfType("T")}
        /\ \A i \in 1..Len(artifact.tasks) :
              ~HasRunnableEdge(artifact.tasks[i].id) =>
                  /\ artifact.tasks[i].body = "pass"
                  /\ artifact.tasks[i].targets = <<>>
                  /\ artifact.tasks[i].commands = 0
                  /\ ~artifact.tasks[i].python_func

C10_Witness ==
    /\ gpc = "generated"
    /\ \E i \in 1..Len(artifact.tasks), j \in 1..Len(artifact.tasks) :
          /\ ~HasRunnableEdge(artifact.tasks[i].id)
          /\ artifact.tasks[i].body = "pass"
          /\ artifact.tasks[i].pre # {}
          /\ artifact.tasks[j].body = "smart_task"
          /\ artifact.tasks[j].targets # <<>>

\* ---------------------------------------------------------------- file graph claims
ScenarioA ==
    /\ nodes = ScenarioANodes
    /\ edges = <<<<"I1", "T1">>, <<"T1", "R1">>, <<"R1", "O1">>>>

\* C11: for I1[a.ly]->T1[compile], T1->R1[lilypond a.ly], R1->O1[a.pdf] the
\* generated file has exactly one task, compile, that calls smart_task with
\* sources exactly [a.ly], targets exactly [a.pdf] and no pre-tasks (so that a
\* build of it runs the command and records the hash of a.ly).
C11_ScenarioA ==
    (gpc = "generated" /\ ScenarioA) =>
        /\ Len(artifact.tasks) = 1
        /\ artifact.tasks[1].name = "compile"
        /\ artifact.tasks[1].pre = {}
        /\ artifact.tasks[1].body = "smart_task"
        /\ artifact.tasks[1].commands = 1
        /\ artifact.tasks[1].sources = [paths |-> <<"a.ly">>, shared_ly_sources |-> FALSE]
        /\ artifact.tasks[1].targets = <<"a.pdf">>

IsDeclared(id) == get_node_by_id(nodes, id) # None

\* The declared nodes at the far end of the edges selected, in edge order, as
\* file names with the placeholder substituted.
FilesAt(selected(_), end) ==
    LET hits == SelectSeq(edges, LAMBDA e : selected(e) /\ IsDeclared(e[end]))
    IN  [i \in 1..Len(hits) |-> replace_project_name(get_node_by_id(nodes, hits[i][end]).content)]

\* The files of the declared Output and Export nodes with an edge from r.
ProducedBy(r) == FilesAt(LAMBDA e : e[1] = r /\ FirstChar(e[2]) \in {"O", "E"}, 2)

RunnablesOf(task_id) == {e[2] : e \in {x \in EdgeSet : x[1] = task_id /\ startswith(x[2], "R")}}

\* The runnable of the first Task->Runnable edge out of the task.
FirstRunnableOf(task_id) ==
    LET hits == SelectSeq(edges, LAMBDA e : e[1] = task_id /\ startswith(e[2], "R"))
    IN  hits[1][2]

\* The task's command is a script call with an -o argument: the first of its
\* runnables that is declared with a docker or script label is such a script.
ScriptOutputOf(task_id) ==
    LET hits == SelectSeq(edges, LAMBDA e :
                    /\ e[1] = task_id /\ startswith(e[2], "R") /\ IsDeclared(e[2])
                    /\ \/ is_docker(get_node_by_id(nodes, e[2]).content)
                       \/ is_bwv_script(get_node_by_id(nodes, e[2]).content))
    IN  IF hits = <<>> THEN NoId ELSE output_argument(get_node_by_id(nodes, hits[1][2]).content)

\* C12 as claimed: when T has a Task->Runnable edge to (one) runnable R, the
\* targets are exactly the files of the declared Output and Export nodes with
\* an edge from R, in edge order, and nothing else.
C12_Targets ==
    gpc = "generated" =>
        \A t \in DeclaredOfType("T") : \A r \in RunnablesOf(t.id) :
            RunnablesOf(t.id) = {r} => get_task_targets(t.id, edges, nodes) = ProducedBy(r)

\* C12 as amended: with R the runnable of T's first Task->Runnable edge, the
\* targets are the files of the declared Output and Export nodes with an edge
\* from R, in edge order; when there is none and the task's command is a script
\* call with an -o argument, the targets are that one file; a task generated
\* with a smart_task call passes exactly these targets.
C12_TargetsOrScriptOutput ==
    gpc = "generated" =>
        /\ \A t \in DeclaredOfType("T") :
              RunnablesOf(t.id) # {} =>
                  get_task_targets(t.id, edges, nodes) =
                      IF ProducedBy(FirstRunnableOf(t.id)) # <<>> THEN ProducedBy(FirstRunnableOf(t.id))
                      ELSE IF ScriptOutputOf(t.id) # NoId THEN <<ScriptOutputOf(t.id)>>
                      ELSE <<>>
        /\ \A i \in 1..Len(artifact.tasks) :
              artifact.tasks[i].body = "smart_task" =>
                  artifact.tasks[i].targets = get_task_targets(artifact.tasks[i].id, edges, nodes)

C12_Witness ==
    /\ gpc = "generated"
    /\ \E i \in 1..Len(artifact.tasks) :
          /\ RunnablesOf(artifact.tasks[i].id) = {"R2"}
          /\ ProducedBy("R2") = <<>>
          /\ artifact.tasks[i].targets = <<"{PROJECT_NAME}_ties.csv">>
    /\ \E j \in 1..Len(artifact.tasks) :
          /\ RunnablesOf(artifact.tasks[j].id) = {"R1"}
          /\ artifact.tasks[j].targets = <<"exports/{PROJECT_NAME}.pdf", "{PROJECT_NAME}.svg">>

\* The files of the declared Input and Output nodes with an edge into the task.
FlowingInto(task_id) == FilesAt(LAMBDA e : e[2] = task_id /\ FirstChar(e[1]) \in {"I", "O"}, 1)

GeneratedInputFiles == {f \in FilesOfType(nodes, "I") : is_generated_input(f)}

IntermediateFiles == FilesOfType(nodes, "O") \cup GeneratedInputFiles

C15_CleanAll ==
    [][CleanAll =>
        /\ \A f \in IntermediateFiles \cup FilesOfType(nodes, "E") : disk'[f] = 0
        /\ ~cache_file'.exists
        /\ \A f \in FilesOfType(nodes, "I") \ GeneratedInputFiles : disk'[f] = disk[f]]_vars

\* C15 as amended: after the clean_all task no file of a declared Output or
\* Export node or of a generated Input node exists, the cache file does not
\* exist, and the files of the other Input nodes that are not also the file
\* of a declared Output or Export node are as they were.
C15_CleanAllKeepsOtherInputs ==
    [][CleanAll =>
        /\ \A f \in IntermediateFiles \cup FilesOfType(nodes, "E") : disk'[f] = 0
        /\ ~cache_file'.exists
        /\ \A f \in FilesOfType(nodes, "I") \ (IntermediateFiles \cup FilesOfType(nodes, "E")) :
              disk'[f] = disk[f]]_vars

C15_Witness ==
    /\ gpc = "cleaned_all"
    /\ FilesOfType(nodes, "E") # {}
    /\ GeneratedInputFiles # {}
    /\ \E f \in FilesOfType(nodes, "I") \ (IntermediateFiles \cup FilesOfType(nodes, "E")) :
          disk[f] = MaxContent

\* ---------------------------------------------------------------- ordering claims
\* The passes of the sort's loop that produced the generated order.
SortRounds == artifact.rounds

\* C17: for every graph, cyclic ones included, the sort ends after at most n
\* passes of its loop for n tasks, every pass emits at least one task, and the
\* emitted tasks are the declared tasks, each exactly once.
C17_SortTerminates ==
    gpc = "generated" =>
        /\ Len(SortRounds) <= Cardinality(DeclaredOfType("T"))
        /\ \A k \in 1..Len(SortRounds) : SortRounds[k].ready # <<>>
        /\ Len(artifact.tasks) = Cardinality(DeclaredOfType("T"))
        /\ {artifact.tasks[i].id : i \in 1..Len(artifact.tasks)} = {n.id : n \in DeclaredOfType("T")}

C17_Witness ==
    /\ gpc = "generated"
    /\ ~Acyclic
    /\ <<"T1", "T1">> \in EdgeSet
    /\ Len(artifact.tasks) = 3
    /\ Len(SortRounds) = 3
    /\ \E k \in 1..Len(SortRounds) : SortRounds[k].warning

\* ---------------------------------------------------------------- rebuild claims
\* The second build, run after the cache file was deleted, has completed.
Rebuilt == snapshot # NoSnapshot /\ prev = "ok" /\ pc = "idle" /\ outcome.kind = "ok"

SameTargets == \A t \in TaskNames : \A p \in pipeline[t].targets : disk[p] = snapshot[p]

C19_FailureReport ==
    (pc = "idle" /\ outcome.kind \in {"command", "missing"}) =>
        /\ outcome.exit_code # 0
        /\ {"task", "command"} \subseteq inv.printed

C21_ScenarioE ==
    [][/\ (pc = "validate" /\ missing_targets(pipeline[inv.task].targets, disk) # {}) =>
            /\ pc' = "idle"
            /\ outcome'.kind = "missing"
            /\ outcome'.exit_code # 0
       /\ (pc \in {"commands", "python_func"} /\ pc' = "idle") =>
            /\ outcome'.kind = "command"
            /\ outcome'.kind # "missing"
            /\ outcome'.exit_code # 0]_vars

C21_Witness ==
    /\ pc = "idle"
    /\ outcome.kind = "missing"
    /\ inv.commands > 0
    /\ inv.started = inv.commands
    /\ outcome.missing = pipeline[inv.task].targets

\* C22: when a non-forced invocation of a task decided to rebuild and the run
\* then ended in a failing command or was killed during a command, the next
\* non-forced invocation of that task that finds the sources as they were
\* hashed then judges the task up to date without touching the cache file, and
\* an up-to-date task returns without error, running no command and checking
\* no target, whether its targets exist or not.
C22_RerunAfterFailure ==
    [][/\ (/\ Decides
           /\ last.task = TaskOrder[idx]
           /\ ~last.forced
           /\ ~inv'.force
           /\ current_hashes(pipeline[TaskOrder[idx]].sources, disk) = last.hashes) =>
                /\ pc' = "up_to_date"
                /\ cache_file' = cache_file
       /\ pc = "up_to_date" =>
            /\ disk' = disk
            /\ outcome'.kind \in {"none", "ok"}
            /\ inv' = NoInv
            /\ pc' \in {"start", "idle"}]_vars

C22_Witness ==
    /\ pc = "up_to_date"
    /\ last.kind = "killed"
    /\ last.task = inv.task
    /\ ~last.forced
    /\ last.hashes # EmptyMap
    /\ pipeline[inv.task].targets # {}
    /\ \A p \in pipeline[inv.task].targets : disk[p] = 0

\* C23: a rebuild deletes every declared target before its first command or
\* callable starts: the step that leads to the first command leaves no target
\* on disk, touches no other file and raises no error, whether the targets
\* existed or not; and while the commands run a target changes only by being
\* written by a command. So after a rebuild that fails, a target is either
\* absent or was written by a command of this run.
C23_RemoveBeforeRun ==
    [][/\ ((pc' \in {"commands", "python_func"}) /\ (pc \notin {"commands", "python_func"})) =>
            /\ pc = "remove"
            /\ inv'.started = 0
            /\ \A p \in pipeline[inv.task].targets : disk'[p] = 0
            /\ \A p \in Paths \ pipeline[inv.task].targets : disk'[p] = disk[p]
            /\ outcome' = outcome
       /\ pc = "remove" => pc' \in {"commands", "python_func"}
       /\ pc \in {"commands", "python_func", "validate"} =>
            \A p \in Paths :
                disk'[p] # disk[p] =>
                    /\ pc # "validate"
                    /\ p \in pipeline[inv.task].targets
                    /\ disk'[p] = Produced(pipeline[inv.task].sources, disk)]_vars

C23_Witness ==
    /\ pc = "idle"
    /\ outcome.kind = "command"
    /\ inv.rebuild
    /\ pipeline[inv.task].targets = Paths
    /\ disk["a"] = 0
    /\ disk["b"] # 0
    /\ ~edited

\* C24: a rebuilding task runs its commands one at a time in the listed order,
\* the next one only after the one before exited with status zero, or it runs
\* its single callable, never both; an invocation given both commands and a
\* callable, or neither, ends in an internal error before the cache file is
\* read or written and before any file is deleted.
C24_CommandsInOrder ==
    [][/\ pc = "commands" =>
            /\ inv.commands > 0 /\ ~inv.python_func
            /\ inv.started < inv.commands
            /\ inv'.started = inv.started + 1
            /\ pc' \in {"commands", "validate", "idle"}
            /\ pc' = "commands" => (outcome'.kind = "none" /\ inv'.started < inv.commands)
            /\ pc' = "validate" => (outcome'.kind = "none" /\ inv'.started = inv.commands)
            /\ pc' = "idle" => outcome'.kind = "command"
       /\ pc = "python_func" =>
            /\ inv.commands = 0 /\ inv.python_func
            /\ inv.started = 0
            /\ pc' \in {"validate", "idle"}
       /\ Decides => ((inv'.commands > 0) # inv'.python_func)
       /\ (pc = "start" /\ ~Decides) =>
            /\ pc' = "idle"
            /\ outcome'.kind = "internal"
            /\ outcome'.exit_code # 0
            /\ cache_file' = cache_file
            /\ disk' = disk]_vars

C24_Witness ==
    /\ pc = "commands"
    /\ inv.commands = MaxCmds
    /\ inv.started = MaxCmds - 1
    /\ outcome.kind = "none"

\* ---------------------------------------------------------------- ordering claims
\* The selection rounds as the claims describe them, from the declared tasks
\* in declaration order and the set of edges: each round takes the remaining
\* tasks whose direct dependencies are all emitted, in declaration order, or,
\* when there is none, the first remaining task with a warning.
RECURSIVE ClaimedRounds(_, _)
ClaimedRounds(emitted, remaining) ==
    IF remaining = <<>> THEN <<>>
    ELSE LET names == {emitted[i].content : i \in 1..Len(emitted)}
             ready == SelectSeq(remaining, LAMBDA t : DirectDependencies(t.id) \subseteq names)
             pick  == IF ready = <<>> THEN <<remaining[1]>> ELSE ready
         IN  <<[ready |-> pick, warning |-> ready = <<>>]>>
                \o ClaimedRounds(emitted \o pick,
                                 SelectSeq(remaining, LAMBDA t : t \notin ToSet(pick)))

RECURSIVE Flatten(_)
Flatten(rounds) ==
    IF rounds = <<>> THEN <<>> ELSE Head(rounds).ready \o Flatten(Tail(rounds))

\* C25: the order of the generated tasks is a function of the declared task
\* order and the edges alone: every round emits, in declaration order, all
\* the tasks that are ready at its start; the fallback fires only when none
\* is ready and emits exactly the first remaining task; the generated tasks
\* are the rounds' tasks one after the other.
C25_DeterministicOrder ==
    gpc = "generated" =>
        LET claimed == ClaimedRounds(<<>>, get_nodes_by_type(nodes, "T"))
            flat    == Flatten(claimed)
        IN  /\ SortRounds = claimed
            /\ [i \in 1..Len(artifact.tasks) |-> artifact.tasks[i].id]
                    = [i \in 1..Len(flat) |-> flat[i].id]

C25_Witness ==
    /\ gpc = "generated"
    /\ Len(SortRounds) = 2
    /\ SortRounds[1].warning
    /\ Len(SortRounds[2].ready) = 2
    /\ ~SortRounds[2].warning
    /\ names_of(artifact.tasks) = <<"t1", "t2", "t3">>

\* C26: when a task has more than one Task->Runnable edge, the command and the
\* targets of its descriptor both come from the runnable of the first such
\* edge, whatever that runnable's label is: the command is that runnable's
\* (none, if its label is no command the generator knows), and the targets are
\* the files that runnable produces or, failing those, the -o argument of its
\* own label.
C26_FirstFoundWins ==
    gpc = "generated" =>
        \A t \in DeclaredOfType("T") :
            Cardinality(RunnablesOf(t.id)) > 1 =>
                LET first   == FirstRunnableOf(t.id)
                    command == get_task_command(t.id, edges, nodes)
                    label   == get_node_by_id(nodes, first).content
                IN  /\ command # NoCommand => command.runnable = first
                    /\ get_task_targets(t.id, edges, nodes) =
                          IF ProducedBy(first) # <<>> THEN ProducedBy(first)
                          ELSE IF IsDeclared(first) /\ output_argument(label) # NoId
                          THEN <<output_argument(label)>>
                          ELSE <<>>

\* ---------------------------------------------------------------- concurrency claims
\* No process is inside save_cache, the cache file is a JSON document, and it
\* lacks the hashes that some process saved for a task.
LostUpdate ==
    /\ \A q \in DOMAIN procs : procs[q].pc \notin {"save", "writing"}
    /\ cache_file # TornCache
    /\ \E p \in DOMAIN procs : \E t \in DOMAIN procs[p].persisted :
          cache_get(load_cache(cache_file), t) # procs[p].persisted[t]

\* C27: the cache file can lose the entry a process saved for a task only
\* when more than one build process runs: with a single process the file
\* always holds what the process saved, and is never left half written.
C27_LostUpdateNeedsTwo ==
    /\ LostUpdate => Cardinality(DOMAIN procs) > 1
    /\ Cardinality(DOMAIN procs) = 1 =>
          /\ procs[1].pc # "crashed"
          /\ procs[1].pc \in {"load", "returned", "done"} => cache_file # TornCache

\* With two processes the lost update happens: one saved the hashes of t1, the
\* other then saved its own copy of the cache with the hashes of t2 only.
C27_Witness ==
    /\ LostUpdate
    /\ Cardinality(DOMAIN procs) = 2
    /\ \A q \in DOMAIN procs : procs[q].pc = "done" /\ ~procs[q].raced
    /\ "t1" \in DOMAIN procs[1].persisted
    /\ "t2" \in DOMAIN procs[2].persisted
    /\ DOMAIN load_cache(cache_file) = {"t2"}

\* ---------------------------------------------------------------- completion claims
\* The step in which a task invocation returns without error.
Returns == pc \in {"validate", "up_to_date"} /\ outcome'.kind \in {"none", "ok"}

\* C28: whenever a task invocation returns without error, after a rebuild or
\* as up to date, every declared target of the task exists on disk.
C28_TargetsExistOnReturn ==
    [][Returns => \A p \in pipeline[inv.task].targets : disk'[p] # 0]_vars

\* ---------------------------------------------------------------- cycle claims
\* The names a task depends on, directly or through other tasks.
TransitiveDependencies(name) ==
    Closure(DependenciesOfName(name), Cardinality(DeclaredOfType("T")))

\* The task depends on itself, directly or through other tasks.
OnCycle(name) == name \in TransitiveDependencies(name)

\* Neither the task nor anything it depends on lies on a cycle.
CycleFree(name) == \A d \in {name} \cup TransitiveDependencies(name) : ~OnCycle(d)

\* C29: in any graph, with or without cycles, a task that neither lies on a
\* dependency cycle nor depends, directly or through other tasks, on a task of
\* a cycle is emitted after all of its direct dependencies, and the fallback
\* never picks such a task.
C29_OrderOutsideCycles ==
    gpc = "generated" =>
        LET names  == {n.content : n \in DeclaredOfType("T")}
            below  == [n \in names |-> TransitiveDependencies(n)]
            cyclic == {n \in names : n \in below[n]}
            free   == {n \in names : n \notin cyclic /\ below[n] \cap cyclic = {}}
        IN  /\ \A i \in 1..Len(artifact.tasks) :
                  artifact.tasks[i].name \in free =>
                      \A dep \in DirectDependencies(artifact.tasks[i].id) :
                          \E j \in 1..(i - 1) : artifact.tasks[j].name = dep
            /\ \A k \in 1..Len(SortRounds) :
                  SortRounds[k].warning => SortRounds[k].ready[1].content \notin free

C29_Witness ==
    /\ gpc = "generated"
    /\ ~Acyclic
    /\ names_of(artifact.tasks) = <<"t3", "t2", "t1">>
    /\ CycleFree("t2")
    /\ DirectDependencies("T2") = {"t3"}
    /\ OnCycle("t1")
    /\ SortRounds[3].warning

\* ---------------------------------------------------------------- cache frame
\* C30: in one build process the only step that writes the cache file is a
\* rebuild decision that is not forced; it sets the entry of the deciding task
\* to the source hashes it observed and adds, alters or removes no other
\* entry. A decision of "unchanged", a forced decision and every other step
\* leave the cache file as it is; so each entry holds the hashes observed at
\* the latest such decision of its own task.
C30_CacheFrame ==
    [][IF Decides /\ pc' = "remove" /\ ~inv'.force
       THEN LET X        == inv'.task
                old      == load_cache(cache_file)
                observed == current_hashes(pipeline[X].sources, disk)
            IN  /\ cache_file'.exists
                /\ DOMAIN cache_file'.data = (DOMAIN old) \cup {X}
                /\ cache_file'.data[X] = observed
                /\ inv'.hashes = observed
                /\ \A t \in (DOMAIN old) \ {X} : cache_file'.data[t] = old[t]
       ELSE cache_file' = cache_file]_vars

C30_Witness ==
    /\ pc = "remove"
    /\ ~inv.force
    /\ inv.task = TaskOrder[2]
    /\ prev = "ok"
    /\ DOMAIN cache_file.data = TaskNames
    /\ cache_file.data[TaskOrder[1]] = current_hashes(pipeline[TaskOrder[1]].sources, disk)
    /\ cache_file.data[TaskOrder[1]] # EmptyMap
    /\ cache_file.data[TaskOrder[2]] = inv.hashes
    /\ inv.hashes # cache_file.data[TaskOrder[1]]

====
